---- MODULE Spec2Model ----
(***************************************************************************)
(* Course catalog web application (src/app.py): a JSON file store          *)
(* (load_courses / save_courses) and the four Flask routes index,          *)
(* course_catalog, course_details and add_course.                          *)
(*                                                                         *)
(* Python values are tagged records [t, s, e]: t is the Python type, s the *)
(* text of a str or number (or the key of a dict item), e the elements of  *)
(* a list, the items of a dict (in insertion order), or the value of an    *)
(* item.  The file holds JSON text, modelled as a sequence of tokens       *)
(* [k, s]; json.dump writes it and json.load parses it.                    *)
(***************************************************************************)
EXTENDS Naturals, Sequences, FiniteSets

VARIABLES
    file,            \* COURSE_FILE on disk: [exists, content]
    req,             \* the request just handled: [route, method, code, form]
    resp,            \* its response: [kind, status, target, model]
    flashes,         \* the messages it passed to flash(): seq of [category, message]
    span,            \* attributes it set on its span
    missing_fields,  \* add_course's local missing_fields at its return
    init0,           \* history: the catalog the store started with
    accepted,        \* history: the courses handed to save_courses so far
    pc,              \* per writer thread: its position inside save_courses
    courses,         \* per writer thread: save_courses' local `courses`
    data,            \* per writer thread: save_courses' argument
    overlap          \* history: a save_courses call began while another was under way

vars ==
    <<file, req, resp, flashes, span, missing_fields, init0, accepted, pc, courses, data,
      overlap>>

(***************************************************************************)
(* Bounds                                                                  *)
(***************************************************************************)
MaxCourses == 2      \* records in the catalog
MaxRawLen == 4       \* tokens of a hand-made (possibly broken) file

(***************************************************************************)
(* Python values                                                           *)
(***************************************************************************)
PyStr(s) == [t |-> "str", s |-> s, e |-> <<>>]
PyNum(s) == [t |-> "num", s |-> s, e |-> <<>>]
PyList(e) == [t |-> "list", s |-> "", e |-> e]
PyDict(items) == [t |-> "dict", s |-> "", e |-> items]
PyItem(key, v) == [t |-> "item", s |-> key, e |-> <<v>>]
None == [t |-> "none", s |-> "", e |-> <<>>]

\* key in d
HasKey(d, key) == \E i \in 1..Len(d.e) : d.e[i].s = key

\* d[key], for a key of d
GetItem(d, key) == d.e[CHOOSE i \in 1..Len(d.e) : d.e[i].s = key].e[1]

\* d[key] = v: a new key goes last, an old key keeps its place
SetItem(d, key, v) ==
    IF HasKey(d, key)
    THEN PyDict([i \in 1..Len(d.e) |-> IF d.e[i].s = key THEN PyItem(key, v) ELSE d.e[i]])
    ELSE PyDict(Append(d.e, PyItem(key, v)))

(***************************************************************************)
(* JSON text                                                               *)
(***************************************************************************)
Tok(k, s) == [k |-> k, s |-> s]

RECURSIVE Indent(_)
Indent(level) == IF level = 0 THEN "" ELSE "    " \o Indent(level - 1)

Newline(level) == Tok("nl", Indent(level))

\* json.dump(obj, file, indent=4)
RECURSIVE json_dump(_, _)
RECURSIVE DumpElements(_, _, _)
DumpElements(es, i, level) ==
    LET one == IF es[i].t = "item"
               THEN <<Tok("str", es[i].s), Tok(":", "")>> \o json_dump(es[i].e[1], level)
               ELSE json_dump(es[i], level)
    IN  IF i = Len(es)
        THEN one
        ELSE one \o <<Tok(",", ""), Newline(level)>> \o DumpElements(es, i + 1, level)

json_dump(v, level) ==
    CASE v.t = "str" -> <<Tok("str", v.s)>>
      [] v.t = "num" -> <<Tok("num", v.s)>>
      [] v.t = "none" -> <<Tok("null", "")>>
      [] v.t = "list" ->
            IF v.e = <<>>
            THEN <<Tok("[", ""), Tok("]", "")>>
            ELSE <<Tok("[", ""), Newline(level + 1)>> \o DumpElements(v.e, 1, level + 1)
                 \o <<Newline(level), Tok("]", "")>>
      [] v.t = "dict" ->
            IF v.e = <<>>
            THEN <<Tok("{", ""), Tok("}", "")>>
            ELSE <<Tok("{", ""), Newline(level + 1)>> \o DumpElements(v.e, 1, level + 1)
                 \o <<Newline(level), Tok("}", "")>>

\* json.load(file): [ok, val, next]; ok = FALSE is JSONDecodeError
ParseFail == [ok |-> FALSE, val |-> None, next |-> 0]
ParseOk(v, next) == [ok |-> TRUE, val |-> v, next |-> next]

RECURSIVE ParseValue(_, _)
RECURSIVE ParseElements(_, _, _)
RECURSIVE ParseMembers(_, _, _)
ParseElements(t, i, acc) ==
    LET r == ParseValue(t, i)
    IN  IF ~r.ok \/ r.next > Len(t) THEN ParseFail
        ELSE IF t[r.next].k = "," THEN ParseElements(t, r.next + 1, Append(acc, r.val))
        ELSE IF t[r.next].k = "]" THEN ParseOk(PyList(Append(acc, r.val)), r.next + 1)
        ELSE ParseFail

ParseMembers(t, i, acc) ==
    IF i + 1 > Len(t) \/ t[i].k # "str" \/ t[i + 1].k # ":" THEN ParseFail
    ELSE LET r == ParseValue(t, i + 2)
             d == SetItem(acc, t[i].s, r.val)
         IN  IF ~r.ok \/ r.next > Len(t) THEN ParseFail
             ELSE IF t[r.next].k = "," THEN ParseMembers(t, r.next + 1, d)
             ELSE IF t[r.next].k = "}" THEN ParseOk(d, r.next + 1)
             ELSE ParseFail

ParseValue(t, i) ==
    IF i > Len(t) THEN ParseFail
    ELSE CASE t[i].k = "str" -> ParseOk(PyStr(t[i].s), i + 1)
           [] t[i].k = "num" -> ParseOk(PyNum(t[i].s), i + 1)
           [] t[i].k = "null" -> ParseOk(None, i + 1)
           [] t[i].k = "[" ->
                 IF i + 1 <= Len(t) /\ t[i + 1].k = "]"
                 THEN ParseOk(PyList(<<>>), i + 2)
                 ELSE ParseElements(t, i + 1, <<>>)
           [] t[i].k = "{" ->
                 IF i + 1 <= Len(t) /\ t[i + 1].k = "}"
                 THEN ParseOk(PyDict(<<>>), i + 2)
                 ELSE ParseMembers(t, i + 1, PyDict(<<>>))
           [] OTHER -> ParseFail

IsSpace(tok) == tok.k = "nl"

json_load(content) ==
    LET t == SelectSeq(content, LAMBDA tok : ~IsSpace(tok))
        r == ParseValue(t, 1)
    IN  IF r.ok /\ r.next = Len(t) + 1 THEN r ELSE ParseFail

(***************************************************************************)
(* The store                                                               *)
(***************************************************************************)
Absent == [exists |-> FALSE, content |-> <<>>]
Present(content) == [exists |-> TRUE, content |-> content]

\* load_courses with the parse error swallowed (try/except returning [])
load_courses_lenient(f) ==
    IF ~f.exists
    THEN [ok |-> TRUE, val |-> PyList(<<>>)]
    ELSE LET r == json_load(f.content)
         IN  [ok |-> TRUE, val |-> IF r.ok THEN r.val ELSE PyList(<<>>)]

\* load_courses(): [ok, val]; ok = FALSE when json.load raises
load_courses(f) ==
    IF ~f.exists
    THEN [ok |-> TRUE, val |-> PyList(<<>>)]
    ELSE LET r == json_load(f.content) IN [ok |-> r.ok, val |-> r.val]

\* save_load with the new record put first (insert(0, data))
save_load_prepend(f, d) ==
    LET r == load_courses(f)
    IN  IF ~r.ok \/ r.val.t # "list"
        THEN [ok |-> FALSE, courses |-> <<>>, error |-> "Error"]
        ELSE [ok |-> TRUE, courses |-> <<d>> \o r.val.e, error |-> ""]

\* save_load that starts from an empty list instead of the loaded one
save_load_fresh(f, d) == [ok |-> TRUE, courses |-> <<d>>, error |-> ""]

\* save_courses, lines 68-69: [ok, courses, error]; ok = FALSE when
\* load_courses raises (JSONDecodeError) or the loaded value has no append
\* (AttributeError: it is not a list)
save_load(f, d) ==
    LET r == load_courses(f)
    IN  IF ~r.ok THEN [ok |-> FALSE, courses |-> <<>>, error |-> "JSONDecodeError"]
        ELSE IF r.val.t # "list"
             THEN [ok |-> FALSE, courses |-> <<>>, error |-> "AttributeError"]
        ELSE [ok |-> TRUE, courses |-> Append(r.val.e, d), error |-> ""]

\* save_courses, line 70: open(COURSE_FILE, 'w') creates or empties the file
save_open == Present(<<>>)

\* save_courses, line 71: what the file holds once json.dump is through
save_dump(cs) == Present(json_dump(PyList(cs), 0))

\* save_courses that writes the new record alone
save_courses_overwrite(f, d) == [ok |-> TRUE, file |-> save_dump(<<d>>), error |-> ""]

\* save_courses(data) run from start to end: [ok, file, error]; the file is opened
\* for writing only after the load and the append went through
save_courses(f, d) ==
    LET l == save_load(f, d)
    IN  IF ~l.ok
        THEN [ok |-> FALSE, file |-> f, error |-> l.error]
        ELSE [ok |-> TRUE, file |-> save_dump(l.courses), error |-> ""]

(***************************************************************************)
(* Python operations the handlers use                                      *)
(***************************************************************************)
\* ', '.join(parts)
RECURSIVE Join(_, _)
Join(sep, parts) ==
    IF parts = <<>> THEN ""
    ELSE IF Len(parts) = 1 THEN parts[1]
    ELSE parts[1] \o sep \o Join(sep, Tail(parts))

\* what `for course in courses` yields: [ok, seq]; ok = FALSE is TypeError.
\* A dict yields its keys; a str yields its characters, which are strs again
\* (one stands for them all: subscripting any of them raises the same way).
Iter(v) ==
    CASE v.t = "list" -> [ok |-> TRUE, seq |-> v.e]
      [] v.t = "dict" -> [ok |-> TRUE, seq |-> [i \in 1..Len(v.e) |-> PyStr(v.e[i].s)]]
      [] v.t = "str" -> [ok |-> TRUE, seq |-> IF v.s = "" THEN <<>> ELSE <<PyStr(v.s)>>]
      [] OTHER -> [ok |-> FALSE, seq |-> <<>>]

\* len(courses): [ok, n]; ok = FALSE is TypeError
PyLen(v) ==
    CASE v.t \in {"list", "dict"} -> [ok |-> TRUE, n |-> Len(v.e)]
      [] v.t = "str" -> [ok |-> TRUE, n |-> Len(v.s)]
      [] OTHER -> [ok |-> FALSE, n |-> 0]

\* the scan keeping the last match instead of stopping at the first
RECURSIVE LastWithCode(_, _, _)
LastWithCode(seq, i, code) ==
    IF i > Len(seq) THEN [ok |-> TRUE, val |-> None]
    ELSE IF seq[i].t # "dict" \/ ~HasKey(seq[i], "code") THEN [ok |-> FALSE, val |-> None]
    ELSE LET rest == LastWithCode(seq, i + 1, code)
         IN  IF ~rest.ok \/ rest.val # None THEN rest
             ELSE IF GetItem(seq[i], "code") = PyStr(code) THEN [ok |-> TRUE, val |-> seq[i]]
             ELSE rest

\* the scan with the first course as its default instead of None
RECURSIVE FirstWithCodeElseFirst(_, _, _)
FirstWithCodeElseFirst(seq, i, code) ==
    IF i > Len(seq) THEN [ok |-> TRUE, val |-> IF seq = <<>> THEN None ELSE seq[1]]
    ELSE IF seq[i].t # "dict" \/ ~HasKey(seq[i], "code") THEN [ok |-> FALSE, val |-> None]
    ELSE IF GetItem(seq[i], "code") = PyStr(code) THEN [ok |-> TRUE, val |-> seq[i]]
    ELSE FirstWithCodeElseFirst(seq, i + 1, code)

\* next((course for course in courses if course['code'] == code), None):
\* [ok, val]; ok = FALSE when course['code'] raises (KeyError, TypeError)
\* before a match is found; val = None when the scan ends without a match
RECURSIVE FirstWithCode(_, _, _)
FirstWithCode(seq, i, code) ==
    IF i > Len(seq) THEN [ok |-> TRUE, val |-> None]
    ELSE IF seq[i].t # "dict" \/ ~HasKey(seq[i], "code") THEN [ok |-> FALSE, val |-> None]
    ELSE IF GetItem(seq[i], "code") = PyStr(code) THEN [ok |-> TRUE, val |-> seq[i]]
    ELSE FirstWithCode(seq, i + 1, code)

(***************************************************************************)
(* Requests, responses                                                     *)
(***************************************************************************)
FieldOrder ==
    <<"code", "name", "instructor", "semester", "schedule", "classroom",
      "prerequisites", "grading", "description">>

FieldNames == {FieldOrder[i] : i \in 1..Len(FieldOrder)}

EmptyForm == [f \in {} |-> ""]

Request(route, method, code, form) ==
    [route |-> route, method |-> method, code |-> code, form |-> form]

\* render_template(template, **context): context holds at most one value
Render(template, context) ==
    [kind |-> "render", status |-> 200, target |-> template, model |-> context]

\* redirect(url_for(endpoint))
Redirect(url) == [kind |-> "redirect", status |-> 302, target |-> url, model |-> <<>>]

\* an exception leaves the handler: Flask answers with an error page
Abort(status, exception) ==
    [kind |-> "abort", status |-> status, target |-> exception, model |-> <<>>]

Flash(category, message) == [category |-> category, message |-> message]

NoCount == 0 - 1

\* the attributes a handler sets besides user_ip, http_url and http_method
Span(count, code, error, status) ==
    [course_count |-> count, course_code |-> code, error_message |-> error, status |-> status]

NoSpan == Span(NoCount, "", "", "")

url_course_catalog == "/catalog"
url_add_course == "/add_course"

(***************************************************************************)
(* add_course: the draft and its check                                     *)
(***************************************************************************)
\* the dict literal of lines 166-176, for a form that has every key
CourseOf(form) ==
    PyDict([i \in 1..Len(FieldOrder) |-> PyItem(FieldOrder[i], PyStr(form[FieldOrder[i]]))])

\* [field for field, value in course.items() if not value and field != "description"]
RECURSIVE MissingFrom(_, _)
MissingFrom(items, i) ==
    IF i > Len(items) THEN <<>>
    ELSE IF items[i].e[1].s = "" /\ items[i].s # "description"
         THEN <<items[i].s>> \o MissingFrom(items, i + 1)
         ELSE MissingFrom(items, i + 1)

\* the check without the exemption of description
MissingFieldsAll(course) ==
    SelectSeq([i \in 1..Len(course.e) |-> course.e[i].s],
              LAMBDA field : GetItem(course, field).s = "")

\* the check that reports the first missing field only
MissingFieldsFirst(course) ==
    LET all == MissingFrom(course.e, 1) IN IF all = <<>> THEN <<>> ELSE <<all[1]>>

\* the check that exempts grading as well
MissingFieldsButGrading(course) ==
    SelectSeq(MissingFrom(course.e, 1), LAMBDA field : field # "grading")

MissingFields(course) == MissingFrom(course.e, 1)

(***************************************************************************)
(* Handlers, as functions of the file and the request                      *)
(***************************************************************************)
Outcome(r, fl, sp, missing, f, saved) ==
    [resp |-> r, flashes |-> fl, span |-> sp, missing |-> missing, file |-> f, saved |-> saved]

\* index()
index_view(f) == Outcome(Render("index.html", <<>>), <<>>, NoSpan, <<>>, f, <<>>)

\* course_catalog that creates the file it did not find
course_catalog_view_touch(f) ==
    LET r == load_courses(f)
    IN  Outcome(Render("course_catalog.html", <<r.val>>), <<>>, Span(Len(r.val.e), "", "", ""),
                <<>>, IF f.exists THEN f ELSE save_dump(<<>>), <<>>)

\* course_catalog()
course_catalog_view(f) ==
    LET r == load_courses(f)
        n == PyLen(r.val)
    IN  IF ~r.ok THEN Outcome(Abort(500, "JSONDecodeError"), <<>>, NoSpan, <<>>, f, <<>>)
        ELSE IF ~n.ok THEN Outcome(Abort(500, "TypeError"), <<>>, NoSpan, <<>>, f, <<>>)
        ELSE Outcome(Render("course_catalog.html", <<r.val>>), <<>>,
                     Span(n.n, "", "", ""), <<>>, f, <<>>)

\* course_details, lines 123-126: [ok, val, error]; val = None when no
\* course has the code
find_course(f, code) ==
    LET r == load_courses(f)
        it == Iter(r.val)
        found == FirstWithCode(it.seq, 1, code)
    IN  IF ~r.ok THEN [ok |-> FALSE, val |-> None, error |-> "JSONDecodeError"]
        ELSE IF ~it.ok \/ ~found.ok THEN [ok |-> FALSE, val |-> None, error |-> "LookupError"]
        ELSE [ok |-> TRUE, val |-> found.val, error |-> ""]

\* course_details(code)
course_details_view(f, code) ==
    LET found == find_course(f, code)
        message == "No course found with code '" \o code \o "'."
    IN  IF ~found.ok THEN Outcome(Abort(500, found.error), <<>>, NoSpan, <<>>, f, <<>>)
        ELSE IF found.val = None
             THEN Outcome(Redirect(url_course_catalog), <<Flash("error", message)>>,
                          Span(NoCount, "", message, ""), <<>>, f, <<>>)
        ELSE Outcome(Render("course_details.html", <<found.val>>), <<>>,
                     Span(NoCount, GetItem(found.val, "code").s, "", ""), <<>>, f, <<>>)

\* add_course(); request.form[key] raises BadRequestKeyError (a KeyError
\* that Flask answers with 400) for a key the form does not carry
add_course_view(f, method, form) ==
    IF method # "POST"
    THEN Outcome(Render("add_course.html", <<>>), <<>>, NoSpan, <<>>, f, <<>>)
    ELSE IF ~(FieldNames \subseteq DOMAIN form)
    THEN Outcome(Abort(400, "BadRequestKeyError"), <<>>, NoSpan, <<>>, f, <<>>)
    ELSE LET course == CourseOf(form)
             missing == MissingFields(course)
             error_m == "Missing fields: " \o Join(", ", missing)
             s == save_courses(f, course)
             added == "Course '" \o GetItem(course, "code").s \o "' added successfully!"
         IN  IF missing # <<>>
             THEN Outcome(Redirect(url_add_course), <<Flash("error", error_m)>>,
                          Span(NoCount, "", "", "error"), missing, f, <<>>)
             ELSE IF ~s.ok
             THEN Outcome(Abort(500, s.error), <<>>, NoSpan, missing, f, <<>>)
             ELSE Outcome(Redirect(url_course_catalog), <<Flash("success", added)>>,
                          NoSpan, missing, s.file, <<course>>)

(***************************************************************************)
(* Inputs                                                                  *)
(***************************************************************************)
Codes == {"CS203", "cs203"}

LookupCodes == Codes \cup {"ZZ999"}

BaseForm(code) ==
    [f \in FieldNames |->
        CASE f = "code" -> code
          [] f = "name" -> "Systems"
          [] f = "instructor" -> "A"
          [] f = "semester" -> "F24"
          [] f = "schedule" -> "MWF"
          [] f = "classroom" -> "101"
          [] f = "prerequisites" -> "none"
          [] f = "grading" -> "A-F"
          [] f = "description" -> "Intro"]

\* the form with the fields of B left empty
Blank(form, B) == [f \in DOMAIN form |-> IF f \in B THEN "" ELSE form[f]]

\* the form without the key k
Drop(form, k) == [f \in DOMAIN form \ {k} |-> form[f]]

\* the sets of fields a submit leaves empty: none, one or two of the nine
BlankSets == {{}} \cup {{a, b} : a, b \in FieldNames}

\* the forms that pass the check: either code, with or without a description
ValidForms == {Blank(BaseForm(c), B) : c \in Codes, B \in SUBSET {"description"}}

\* forms that carry every key
FullForms == ValidForms \cup {Blank(BaseForm("CS203"), B) : B \in BlankSets}

\* and forms that lack one key
Forms == FullForms \cup {Drop(BaseForm("CS203"), k) : k \in FieldNames}

\* the store starts absent, empty, or with one record
InitialCatalogs == {<<>>} \cup {<<CourseOf(form)>> : form \in ValidForms}

\* the tokens a hand-made file is put together from
RawTokens ==
    {Tok("[", ""), Tok("]", ""), Tok("{", ""), Tok("}", ""), Tok("str", "code"), Tok("num", "1")}

Writers == {"w1", "w2"}

(***************************************************************************)
(* Sequential requests                                                     *)
(***************************************************************************)
NoRequest == Request("", "", "", EmptyForm)
NoResponse == [kind |-> "none", status |-> 0, target |-> "", model |-> <<>>]

InitRest ==
    /\ req = NoRequest
    /\ resp = NoResponse
    /\ flashes = <<>>
    /\ span = NoSpan
    /\ missing_fields = <<>>
    /\ accepted = <<>>
    /\ pc = [w \in Writers |-> "idle"]
    /\ courses = [w \in Writers |-> <<>>]
    /\ overlap = FALSE

Init ==
    /\ \/ file = Absent /\ init0 = <<>>
       \/ \E s \in InitialCatalogs : file = Present(json_dump(PyList(s), 0)) /\ init0 = s
    /\ data = [w \in Writers |-> None]
    /\ InitRest

\* what the file holds, as a list of records (<<>> when it holds no list)
Catalog(f) ==
    LET r == load_courses(f) IN IF r.ok /\ r.val.t = "list" THEN r.val.e ELSE <<>>

\* one request handled from start to end; a submit that would grow the
\* catalog past MaxCourses is not taken
Respond(r, out) ==
    /\ Len(init0) + Len(accepted) + Len(out.saved) <= MaxCourses
    /\ req' = r
    /\ resp' = out.resp
    /\ flashes' = out.flashes
    /\ span' = out.span
    /\ missing_fields' = out.missing
    /\ file' = out.file
    /\ accepted' = accepted \o out.saved
    /\ UNCHANGED <<init0, pc, courses, data, overlap>>

index ==
    \E out \in {index_view(file)} :
        Respond(Request("/", "GET", "", EmptyForm), out)

course_catalog ==
    \E out \in {course_catalog_view(file)} :
        Respond(Request("/catalog", "GET", "", EmptyForm), out)

course_details(code) ==
    \E out \in {course_details_view(file, code)} :
        Respond(Request("/course/<code>", "GET", code, EmptyForm), out)

add_course(method, form) ==
    \E out \in {add_course_view(file, method, form)} :
        Respond(Request("/add_course", method, "", form), out)

Next ==
    \/ index
    \/ course_catalog
    \/ \E code \in LookupCodes : course_details(code)
    \/ add_course("GET", EmptyForm)
    \/ \E form \in Forms : add_course("POST", form)

Spec == Init /\ [][Next]_vars

(***************************************************************************)
(* The same requests over a file someone else wrote                        *)
(***************************************************************************)
RawTexts == UNION {[1..n -> RawTokens] : n \in 0..MaxRawLen}

InitRaw ==
    /\ \E text \in RawTexts : file = Present(text)
    /\ init0 = Catalog(file)
    /\ data = [w \in Writers |-> None]
    /\ InitRest

NextRaw ==
    \/ course_catalog
    \/ \E code \in LookupCodes : course_details(code)
    \/ \E form \in ValidForms : add_course("POST", form)

SpecRaw == InitRaw /\ [][NextRaw]_vars

(***************************************************************************)
(* Two threads inside save_courses at once                                 *)
(***************************************************************************)
InitConc ==
    /\ \/ file = Absent /\ init0 = <<>>
       \/ \E s \in InitialCatalogs : file = Present(json_dump(PyList(s), 0)) /\ init0 = s
    /\ data \in [Writers -> {CourseOf(form) : form \in ValidForms}]
    /\ InitRest

Busy(w) == pc[w] \in {"loaded", "opened"}

\* lines 68-69: load the list and append to it
writer_load(w) ==
    /\ pc[w] = "idle"
    /\ \E l \in {save_load(file, data[w])} :
          /\ pc' = [pc EXCEPT ![w] = IF l.ok THEN "loaded" ELSE "failed"]
          /\ courses' = [courses EXCEPT ![w] = l.courses]
    /\ overlap' = (overlap \/ \E o \in Writers \ {w} : Busy(o))
    /\ UNCHANGED <<file, req, resp, flashes, span, missing_fields, init0, accepted, data>>

\* line 70: open the file for writing
writer_open(w) ==
    /\ pc[w] = "loaded"
    /\ file' = save_open
    /\ pc' = [pc EXCEPT ![w] = "opened"]
    /\ UNCHANGED <<req, resp, flashes, span, missing_fields, init0, accepted, courses, data,
                   overlap>>

\* line 71: dump the list
writer_dump(w) ==
    /\ pc[w] = "opened"
    /\ file' = save_dump(courses[w])
    /\ pc' = [pc EXCEPT ![w] = "done"]
    /\ accepted' = Append(accepted, data[w])
    /\ UNCHANGED <<req, resp, flashes, span, missing_fields, init0, courses, data, overlap>>

NextConc ==
    \E w \in Writers :
        \/ writer_load(w)
        \/ writer_open(w)
        \/ writer_dump(w)

SpecConc == InitConc /\ [][NextConc]_vars

(***************************************************************************)
(* Properties                                                              *)
(***************************************************************************)
Required ==
    <<"code", "name", "instructor", "semester", "schedule", "classroom", "prerequisites",
      "grading">>

IsPostOf(r) == r.route = "/add_course" /\ r.method = "POST"
IsPost == IsPostOf(req)

HasAllKeys(form) == FieldNames \subseteq DOMAIN form

\* the required fields a form carries empty, and those it carries empty or
\* not at all, in the order of Required
EmptyOf(form) == SelectSeq(Required, LAMBDA f : form[f] = "")
OmittedOf(form) == SelectSeq(Required, LAMBDA f : f \notin DOMAIN form \/ form[f] = "")

MissingFlash(fields) == <<Flash("error", "Missing fields: " \o Join(", ", fields))>>

CodeIs(course, code) == GetItem(course, "code") = PyStr(code)

Lowest(S) == CHOOSE i \in S : \A j \in S : i <= j

\* the indices of the records of the catalog that carry the code
Hits(cat, code) == {i \in 1..Len(cat) : CodeIs(cat[i], code)}

\* a record with the nine fields, in order, each a string
IsCourse(v) ==
    /\ v.t = "dict"
    /\ Len(v.e) = Len(FieldOrder)
    /\ \A i \in 1..Len(v.e) : v.e[i].s = FieldOrder[i] /\ v.e[i].e[1].t = "str"

\* C1: a completed save_courses(c) followed by load_courses() returns the
\* catalog as it was before (empty when there was no file) with c appended
\* as its last element, every field of c and of the earlier records as it was.
C1_RoundTrip ==
    [][(IsPostOf(req') /\ resp' = Redirect(url_course_catalog))
        => load_courses(file') =
             [ok |-> TRUE,
              val |-> PyList(Append(load_courses(file).val.e, CourseOf(req'.form)))]]_vars

C1_Witness == IsPost /\ resp = Redirect(url_course_catalog) /\ Len(Catalog(file)) >= 2

\* C2: for every code, the lookup of course_details returns None when no
\* record of the catalog carries the code, and otherwise the record of
\* lowest index that carries exactly that code, later records with the same
\* code notwithstanding.
C2_FindFirst ==
    \A code \in LookupCodes :
        LET cat == Catalog(file)
            r == find_course(file, code)
        IN  /\ r.ok
            /\ r.val = IF Hits(cat, code) = {} THEN None ELSE cat[Lowest(Hits(cat, code))]

C2_Witness ==
    /\ req.route = "/course/<code>"
    /\ \E i, j \in Hits(Catalog(file), req.code) :
          /\ i < j
          /\ Catalog(file)[i] # Catalog(file)[j]
          /\ resp.model = <<Catalog(file)[i]>>

\* C3: the check of add_course passes iff all eight of code, name,
\* instructor, semester, schedule, classroom, prerequisites, grading are
\* non-empty, whatever description is; when it does not pass, missing_fields
\* lists exactly the empty required fields, in that order, and never
\* description.
C3_Validation ==
    (IsPost /\ HasAllKeys(req.form)) =>
        /\ (resp = Redirect(url_course_catalog)) <=> (EmptyOf(req.form) = <<>>)
        /\ (resp = Redirect(url_add_course)) <=> (EmptyOf(req.form) # <<>>)
        /\ missing_fields = EmptyOf(req.form)
        /\ \A i \in 1..Len(missing_fields) : missing_fields[i] # "description"

C3_Witness ==
    /\ IsPost
    /\ HasAllKeys(req.form)
    /\ req.form["description"] = ""
    /\ missing_fields = <<"instructor">>

PostEnds(valid, f, f1, acc, acc1, r1, fl1) ==
    /\ r1.kind = "redirect"
    /\ Len(fl1) = 1
    /\ IF valid
       THEN /\ r1.target = url_course_catalog
            /\ fl1[1].category = "success"
            /\ Len(acc1) = Len(acc) + 1
            /\ Len(Catalog(f1)) = Len(Catalog(f)) + 1
       ELSE /\ r1.target = url_add_course
            /\ fl1[1].category = "error"
            /\ acc1 = acc
            /\ f1 = f

\* the catalog is what the store started with followed by the accepted
\* courses, in the order of their submits
CatalogIsHistory == load_courses(file) = [ok |-> TRUE, val |-> PyList(init0 \o accepted)]

C7_Details ==
    [][req'.route = "/course/<code>"
        => LET cat == Catalog(file)
               hits == Hits(cat, req'.code)
           IN  /\ file' = file
               /\ IF hits = {}
                  THEN /\ resp' = Redirect(url_course_catalog)
                       /\ flashes' =
                            <<Flash("error",
                                    "No course found with code '" \o req'.code \o "'.")>>
                  ELSE /\ resp' = Render("course_details.html", <<cat[Lowest(hits)]>>)
                       /\ flashes' = <<>>]_vars

C7_Witness ==
    /\ req.route = "/course/<code>"
    /\ req.code = "ZZ999"
    /\ Catalog(file) # <<>>
    /\ resp = Redirect(url_course_catalog)
    /\ flashes = <<Flash("error", "No course found with code 'ZZ999'.")>>

\* C9: every record of the stored catalog has the nine fields and every
\* field of it but description is non-empty, after any sequence of requests.
C9_StoredCoursesComplete ==
    /\ load_courses(file).ok
    /\ load_courses(file).val.t = "list"
    /\ \A i \in 1..Len(Catalog(file)) :
          /\ IsCourse(Catalog(file)[i])
          /\ \A k \in 1..Len(Required) : GetItem(Catalog(file)[i], Required[k]).s # ""

C9_Witness == accepted # <<>> /\ IsPost /\ missing_fields # <<>>

\* C10: a GET leaves the file as it was (no file stays no file), and the
\* catalog view shows exactly the stored sequence, its length as the count;
\* with no file it shows the empty sequence.
C10_ReadsKeepStore ==
    /\ [][req'.method = "GET" => file' = file]_vars
    /\ [](req.route = "/catalog"
           => /\ resp = Render("course_catalog.html", <<load_courses(file).val>>)
              /\ span.course_count = Len(load_courses(file).val.e)
              /\ ~file.exists => resp.model = <<PyList(<<>>)>>)

C10_Witness == req.route = "/catalog" /\ ~file.exists /\ span.course_count = 0

AllDone == \A w \in Writers : pc[w] = "done"

\* C6: of two save_courses calls that both complete, both courses are in
\* the catalog, in the order the calls completed, when one call began after
\* the other was through; when one began while the other was under way, the
\* catalog holds what the store started with and the course of the call that
\* wrote last, alone: the other completed append is lost.
C6_LostUpdate ==
    AllDone =>
        IF overlap
        THEN load_courses(file) =
               [ok |-> TRUE, val |-> PyList(Append(init0, accepted[Len(accepted)]))]
        ELSE load_courses(file) = [ok |-> TRUE, val |-> PyList(init0 \o accepted)]

C6_Witness ==
    /\ AllDone
    /\ Len(accepted) = Cardinality(Writers)
    /\ Len(Catalog(file)) < Len(init0) + Len(accepted)

\* the JSON values of at most seven tokens that RawTokens can spell
Wrapped(S) == S \cup {PyList(<<v>>) : v \in S}

RawValues == Wrapped(Wrapped(Wrapped({PyStr("code"), PyNum("1"), PyList(<<>>), PyDict(<<>>)})))

ValidRawTexts ==
    {SelectSeq(json_dump(v, 0), LAMBDA tok : ~IsSpace(tok)) : v \in RawValues}

\* the file holds a JSON array of records with the nine fields
IsCatalogText(f) ==
    LET r == json_load(f.content)
    IN  r.ok /\ r.val.t = "list" /\ \A i \in 1..Len(r.val.e) : IsCourse(r.val.e[i])

\* C8, as claimed: on a file that is not valid JSON, or is valid JSON but
\* no array of records with the nine fields, load_courses fails, so the
\* catalog request fails, and save_courses fails and leaves the file as it was.
C8_BadShapeFails ==
    [][(file.exists /\ ~IsCatalogText(file))
        => /\ req'.route = "/catalog" => resp'.kind = "abort"
           /\ IsPostOf(req') => resp'.kind = "abort" /\ file' = file]_vars

\* C8, amended: on a file that is not valid JSON load_courses fails, so the
\* catalog request fails, and save_courses fails and leaves the file as it
\* was; save_courses also fails, the file as it was, on JSON that is no
\* array.  Valid JSON of any shape is loaded as it is: the catalog view is
\* rendered with it, and save_courses appends to any array.
C8_BadJsonFails ==
    [][file.exists
        => LET r == json_load(file.content)
           IN  /\ Len(file.content) <= MaxRawLen => (r.ok <=> file.content \in ValidRawTexts)
               /\ req'.route = "/catalog"
                    => /\ file' = file
                       /\ ~r.ok => resp' = Abort(500, "JSONDecodeError")
                       /\ r.ok /\ r.val.t \in {"list", "dict", "str"}
                            => resp' = Render("course_catalog.html", <<r.val>>)
               /\ IsPostOf(req')
                    => IF ~r.ok \/ r.val.t # "list"
                       THEN resp'.kind = "abort" /\ file' = file
                       ELSE /\ resp' = Redirect(url_course_catalog)
                            /\ load_courses(file') =
                                 [ok |-> TRUE,
                                  val |-> PyList(Append(r.val.e, CourseOf(req'.form)))]]_vars

C8_Witness ==
    /\ IsPost
    /\ file.exists
    /\ file.content # <<>>
    /\ ~json_load(file.content).ok
    /\ resp.kind = "abort"

====
